---- MODULE Spec2Model ----
(***************************************************************************)
(* cec-controller: the durable relay queue (Queue), the connection         *)
(* guardian (CEC), the restart supervisor (Queue.RestartProcess) and the   *)
(* dispatch loop (runController).                                          *)
(*                                                                         *)
(* Two specifications share the module:                                    *)
(*   SpecGuardian  the CEC object alone, driven by calls to PowerOn and    *)
(*                 Standby against a scripted connection and opener;       *)
(*   Spec          the whole process: producers, relay goroutine, the      *)
(*                 main goroutine (startup, dispatch loop, RestartProcess, *)
(*                 deferred Close), signals and process replacement.       *)
(***************************************************************************)
EXTENDS Integers, Sequences, FiniteSets, TLC

(***************************************************************************)
(* Bounds of the model                                                     *)
(***************************************************************************)
\* calls made to the guardian in SpecGuardian
MaxCalls == 2
\* largest configured connection-retry count explored in SpecGuardian
MaxRetries == 2

\* events put by the key-press sink and the power listener in one lineage
MaxEvents == 1
\* events put on the ingress channels in SpecQueue
MaxQueueEvents == 2
\* process replacements followed in one lineage
MaxRestarts == 2
\* largest restart budget set in the environment of a first instance
MaxBudget == 1
\* capacity of each of the four channels (make(chan ..., 10)), scaled down
ChanCap == 2
\* zero values read from closed channels (by the relay or the dispatch
\* loop) that are in the system or were dispatched
MaxPhantoms == 1
\* stored items that are damaged on disk at one time
MaxCorrupt == 1
\* logind signals delivered to the listener of SpecListener
MaxSignals == 2

\* the nil handle / nil pointer
NIL == 0

Range(s) == {s[i] : i \in DOMAIN s}

(***************************************************************************)
(* Connection Health Guardian (type CEC)                                   *)
(*                                                                         *)
(* A guardian state g is a record                                          *)
(*   conn     the live handle held in c.conn (NIL when absent)             *)
(*   retries  c.retries                                                    *)
(*   open     handles opened and not yet closed                            *)
(*   next     identity of the next handle the opener returns               *)
(*   sink     handles whose KeyPresses field is the queue's key channel    *)
(* The hardware is a script: cmds[i] is the result of the i-th command     *)
(* invocation of a call ("nil" or "err"), opens[i] says whether the i-th   *)
(* open attempt of the call succeeds.                                      *)
(***************************************************************************)
CmdResults == {"nil", "err"}

\* past the end of a script the hardware keeps failing
CmdAt(cmds, i) == IF i \in DOMAIN cmds THEN cmds[i] ELSE "nil"
OpenAt(opens, i) == IF i \in DOMAIN opens THEN opens[i] ELSE FALSE

\* NewCECWithOpener: the clamp of connectionRetries
ClampRetries_none(connectionRetries) == connectionRetries
ClampRetries(connectionRetries) ==
    IF connectionRetries < 1 THEN 1 ELSE connectionRetries

\* NewCECWithOpener: one open, then the sink is attached to the handle
NewCECWithOpener(connectionRetries, openOk) ==
    IF ~openOk
    THEN [ok |-> FALSE,
          g  |-> [conn |-> NIL, retries |-> 0, configured |-> connectionRetries,
                  open |-> {}, next |-> 1, sink |-> {}]]
    ELSE [ok |-> TRUE,
          g  |-> [conn |-> 1, retries |-> ClampRetries(connectionRetries),
                  configured |-> connectionRetries,
                  open |-> {1}, next |-> 2, sink |-> {1}]]

\* c.realConn.KeyPresses = c.keyPresses: the handle h gets the shared sink
SetKeyPresses_skip(sink, h) == sink
SetKeyPresses(sink, h) == sink \cup {h}

\* the loop bound of reopen: i < c.retries
reopenMayTry_offByOne(i, retries) == i <= retries
reopenMayTry(i, retries) == i < retries

\* reopen, the retry loop: attempt number i (0-based), next script index oi
RECURSIVE reopenLoop(_, _, _, _, _)
reopenLoop(g, opens, oi, i, log) ==
    IF ~reopenMayTry(i, g.retries)
    THEN [g |-> g, ok |-> FALSE, oi |-> oi, log |-> log]
    ELSE IF OpenAt(opens, oi)
         THEN LET h == g.next
              IN  [g   |-> [g EXCEPT !.conn = h, !.open = @ \cup {h},
                                     !.next = h + 1,
                                     !.sink = SetKeyPresses(@, h)],
                   ok  |-> TRUE,
                   oi  |-> oi + 1,
                   log |-> Append(log, <<"open", h>>)]
         ELSE reopenLoop(g, opens, oi + 1, i + 1, Append(log, <<"openfail", i + 1>>))

\* reopen: under the exclusive lock, close the stale handle, then the loop
reopen_noClose(g, opens, oi, log) == reopenLoop(g, opens, oi, 0, log)
reopen(g, opens, oi, log) ==
    LET closed == IF g.conn # NIL
                  THEN [g EXCEPT !.conn = NIL, !.open = @ \ {g.conn}]
                  ELSE g
        log1   == IF g.conn # NIL THEN Append(log, <<"close", g.conn>>) ELSE log
    IN  reopenLoop(closed, opens, oi, 0, log1)

\* the polarity test of power: "powerFunc(addr) == nil" means failure
cmdFailed_inverted(result) == result # "nil"
cmdFailed(result) == result = "nil"

\* the test made on the retry's result
retryFailed_inverted(result) == result # "nil"
retryFailed(result) == cmdFailed(result)

(***************************************************************************)
(* power: the loop over the addresses.  bound is the handle the method     *)
(* value powerFunc was taken from when PowerOn / Standby was entered; k is *)
(* the position in addrs; st holds the guardian state, the next script     *)
(* indices ci and oi, and the log of the call.  The log holds              *)
(*   <<"cmd", k, addr, handle, result, lock>>   one command invocation     *)
(*   <<"reopen", k>>                            reopen entered             *)
(*   <<"close", h>>, <<"open", h>>, <<"openfail", attempt>>                *)
(* err is "none" (nil error), "reopen" (reopen's error) or "retry" (the    *)
(* retry failed too).                                                      *)
(***************************************************************************)
\* power invokes powerFunc directly, not through powerCall: no lock is held
cmdLock == "none"

\* for _, addr := range addresses: the address of the k-th iteration
AddrAt_reversed(addrs, k) == addrs[Len(addrs) + 1 - k]
AddrAt(addrs, k) == addrs[k]

RECURSIVE power(_, _, _, _, _, _)
power(st, bound, addrs, k, cmds, opens) ==
    IF k > Len(addrs)
    THEN [g |-> st.g, err |-> "none", log |-> st.log]
    ELSE LET addr == AddrAt(addrs, k)
             r1   == CmdAt(cmds, st.ci)
             log1 == Append(st.log, <<"cmd", k, addr, bound, r1, cmdLock>>)
         IN  IF ~cmdFailed(r1)
             THEN power([st EXCEPT !.ci = @ + 1, !.log = log1],
                        bound, addrs, k + 1, cmds, opens)
             ELSE LET ro == reopen(st.g, opens, st.oi, Append(log1, <<"reopen", k>>))
                  IN  IF ~ro.ok
                      THEN [g |-> ro.g, err |-> "reopen", log |-> ro.log]
                      ELSE LET r2   == CmdAt(cmds, st.ci + 1)
                               log2 == Append(ro.log,
                                         <<"cmd", k, addr, bound, r2, cmdLock>>)
                           IN  IF retryFailed(r2)
                               THEN [g |-> ro.g, err |-> "retry", log |-> log2]
                               ELSE power([g |-> ro.g, ci |-> st.ci + 2,
                                           oi |-> ro.oi, log |-> log2],
                                          bound, addrs, k + 1, cmds, opens)

\* PowerOn / Standby: c.power(c.conn.PowerOn, addresses...).  The method value
\* is taken from c.conn on entry; with c.conn absent that is a nil dereference.
PowerCommand_reopenOnNil(g, addrs, cmds, opens) ==
    power([g |-> g, ci |-> 1, oi |-> 1, log |-> <<>>],
          g.conn, addrs, 1, cmds, opens)
PowerCommand(g, addrs, cmds, opens) ==
    IF g.conn = NIL
    THEN [g |-> g, err |-> "panic", log |-> <<>>]
    ELSE power([g |-> g, ci |-> 1, oi |-> 1, log |-> <<>>],
               g.conn, addrs, 1, cmds, opens)

(***************************************************************************)
(* Events and their JSON form                                              *)
(*                                                                         *)
(* A JSON value is [kind |-> "null" | "object", members |-> <<pairs>>];    *)
(* json.Marshal of a struct writes one member a field, json.Unmarshal      *)
(* starts from the zero value and sets the fields it finds by name.        *)
(***************************************************************************)
PowerOn == 0
PowerSleep == 1
PowerResume == 2
PowerShutdown == 3

PowerEvent(t, a) == [Type |-> t, Active |-> a]
KeyPress(code, duration) == [KeyCode |-> code, Duration |-> duration]
ZeroPowerEvent == PowerEvent(0, FALSE)
ZeroKeyPress == KeyPress(0, 0)
\* a nil *cec.KeyPress
NilKey == [KeyCode |-> -1, Duration |-> -1]

JsonNull == [kind |-> "null", members |-> <<>>]
JsonObject(members) == [kind |-> "object", members |-> members]
\* bytes that are not JSON: json.Unmarshal returns an error on them
JsonInvalid == [kind |-> "invalid", members |-> <<>>]
UnmarshalFails(j) == j.kind = "invalid"
HasMember(j, name) == \E i \in DOMAIN j.members : j.members[i][1] = name
Member(j, name) ==
    LET i == CHOOSE i \in DOMAIN j.members : j.members[i][1] = name
    IN  j.members[i][2]

MarshalPower_noActive(pe) == JsonObject(<< <<"Type", pe.Type>> >>)
MarshalPower(pe) == JsonObject(<< <<"Type", pe.Type>>, <<"Active", pe.Active>> >>)
MarshalKey(ke) ==
    IF ke = NilKey THEN JsonNull
    ELSE JsonObject(<< <<"KeyCode", ke.KeyCode>>, <<"Duration", ke.Duration>> >>)
UnmarshalPower(j) ==
    IF j.kind = "null" THEN ZeroPowerEvent
    ELSE [Type   |-> IF HasMember(j, "Type") THEN Member(j, "Type") ELSE 0,
          Active |-> IF HasMember(j, "Active") THEN Member(j, "Active") ELSE FALSE]
UnmarshalKey(j) ==
    IF j.kind = "null" THEN ZeroKeyPress
    ELSE [KeyCode  |-> IF HasMember(j, "KeyCode") THEN Member(j, "KeyCode") ELSE 0,
          Duration |-> IF HasMember(j, "Duration") THEN Member(j, "Duration") ELSE 0]

\* queueItem{Type, Data} as EnqueueObjectAsJSON stores it and as the drain
\* branch reads it back
MarshalItem(type, data) == JsonObject(<< <<"type", type>>, <<"data", data>> >>)
ItemType(j) == IF HasMember(j, "type") THEN Member(j, "type") ELSE ""
ItemData(j) == IF HasMember(j, "data") THEN Member(j, "data") ELSE JsonNull

(***************************************************************************)
(* The process environment                                                 *)
(*                                                                         *)
(* An environment is the list of <<name, value>> a process image is        *)
(* started with.  The Go runtime keeps the first entry of a name: Getenv   *)
(* reads it and Environ leaves the later ones out.                         *)
(***************************************************************************)
queueDirEnvVar == "CEC_QUEUE_DIR"
restartEnvVar == "CEC_RESTART_RETRIES"

Getenv(env, name) ==
    IF \E i \in DOMAIN env : env[i][1] = name
    THEN LET i == CHOOSE i \in DOMAIN env :
                      /\ env[i][1] = name
                      /\ \A j \in 1..(i - 1) : env[j][1] # name
         IN  env[i][2]
    ELSE ""

RECURSIVE Environ(_)
Environ(env) ==
    IF env = <<>> THEN <<>>
    ELSE LET front == Environ(SubSeq(env, 1, Len(env) - 1))
             e     == env[Len(env)]
         IN  IF \E i \in DOMAIN front : front[i][1] = e[1]
             THEN front ELSE Append(front, e)

\* fmt.Sprintf("%d", n) and its inverse, over the numbers a budget takes
DecimalRange == (-2)..9
Sprintf_d(n) ==
    CASE n = -2 -> "-2" [] n = -1 -> "-1" [] n = 0 -> "0" [] n = 1 -> "1"
      [] n = 2 -> "2" [] n = 3 -> "3" [] n = 4 -> "4" [] n = 5 -> "5"
      [] n = 6 -> "6" [] n = 7 -> "7" [] n = 8 -> "8" [] n = 9 -> "9"
Atoi(str) == CHOOSE n \in DecimalRange : Sprintf_d(n) = str

\* the restart budget an instance is started with: the environment's value,
\* or the configured default when the variable is absent
DefaultRestartRetries == 2
RestartRetries(env) ==
    IF Getenv(env, restartEnvVar) = "" THEN DefaultRestartRetries
    ELSE Atoi(Getenv(env, restartEnvVar))

\* loadConfig: the queue directory is the environment's when it names one
QueueDirFromEnv(env) == Getenv(env, queueDirEnvVar)

\* RestartProcess: the environment handed to syscall.Exec
RestartEnv_noDecrement(env, qdir, retriesLeft) ==
    Environ(env) \o << <<queueDirEnvVar, qdir>>, <<restartEnvVar, Sprintf_d(retriesLeft)>> >>
RestartEnv(env, qdir, retriesLeft) ==
    Environ(env) \o << <<queueDirEnvVar, qdir>>, <<restartEnvVar, Sprintf_d(retriesLeft - 1)>> >>

\* RestartProcess: the budget test that refuses a restart
restartRefused_negativeOnly(retriesLeft) == retriesLeft < 0
restartRefused(retriesLeft) == retriesLeft <= 0

(***************************************************************************)
(* State                                                                   *)
(***************************************************************************)
VARIABLES
    cec,          \* the guardian state of the running process
    gcall,        \* SpecGuardian: the last call made, with its log and error
    gcalls,       \* SpecGuardian: calls made so far
    environ,      \* the environment the running image was started with
    args,         \* os.Args of the running image
    instance,     \* process replacements made so far in the lineage
    restartRetries, \* the restart budget the running instance read at startup
    qdir,         \* q.dir of the running instance ("" before NewQueue)
    dirExists,    \* the directories that exist on disk
    disk,         \* the log each directory holds, oldest item first
    fsOpen,       \* q.fsQueue is open
    inP, inK,     \* InPowerEvents, InKeyEvents
    outP, outK,   \* OutPowerEvents, OutKeyEvents
    chClosed,     \* the four channels are closed
    relaypc,      \* relay goroutine: "none", "select", "sendP", "sendK", "stopped"
    relayItem,    \* the event the relay holds while blocked on an egress send
    listener,     \* power listener goroutine: "none", "running", "stopped"
    mainpc,       \* main goroutine: where runController is
    closing,      \* the close in progress: its delete flag and what follows
    ctxDone,      \* the context is cancelled
    sigSent,      \* SIGINT / SIGTERM was delivered
    exitKind,     \* how the process ended: "none", "graceful", "error", "panic"
    nextId,       \* number of the next event put on an ingress channel
    put,          \* the events put on the ingress channels, by number
    gotP, gotK,   \* what the dispatch loop received from each egress channel
    pressed,      \* the key codes handed to keyMapObj.OnKeyPress
    signalCh,     \* the channel logind signals are delivered on, oldest first
    heard,        \* the signals the listener goroutine received, in order
    lastRestart,  \* the last return of RestartProcess: its argument and what it did
    lastExec,     \* the last successful syscall.Exec: what it was handed
    firstBudget   \* the budget the first instance of the lineage read

gvars == <<cec, gcall, gcalls>>
envvars == <<environ, args, instance, restartRetries, lastRestart, lastExec, firstBudget>>
storevars == <<qdir, dirExists, disk, fsOpen>>
chanvars == <<inP, inK, outP, outK, chClosed>>
relayvars == <<relaypc, relayItem>>
mainvars == <<mainpc, closing, ctxDone, sigSent, exitKind>>
ghostvars == <<nextId, put, gotP, gotK, pressed, signalCh, heard>>
sysvars == <<environ, args, instance, restartRetries, qdir, dirExists, disk, fsOpen,
             inP, inK, outP, outK, chClosed, relaypc, relayItem, listener, mainpc,
             closing, ctxDone, sigSent, exitKind, nextId, put, gotP, gotK, pressed, signalCh, heard,
             lastRestart, lastExec, firstBudget>>
vars == <<cec, gcall, gcalls, environ, args, instance, restartRetries, qdir,
          dirExists, disk, fsOpen, inP, inK, outP, outK, chClosed, relaypc,
          relayItem, listener, mainpc, closing, ctxDone, sigSent, exitKind,
          nextId, put, gotP, gotK, pressed, signalCh, heard, lastRestart, lastExec,
          firstBudget>>

(***************************************************************************)
(* The process and its configuration                                       *)
(***************************************************************************)
\* directories MkdirTemp can create
Dirs == {"d1", "d2", "d3"}
BaseEnv == << <<"HOME", "/root">> >>
Args == <<"cec-controller", "--devices", "0">>
\* cfg.PowerDevices
PowerDevices == <<0>>
\* cfg.ConnectionRetries of the process
ConnectionRetries == 1
\* what the power listener and the key-press sink produce
KeyCodes == {1}
Durations == {0, 120}
Signals == {"PrepareForSleep", "PrepareForShutdown"}
Actives == {TRUE}

NoGuardian == [conn |-> NIL, retries |-> 0, configured |-> 0,
               open |-> {}, next |-> 1, sink |-> {}]
NoCall == [op |-> "none", addrs |-> <<>>, err |-> "none", log |-> <<>>]
NoClosing == [delete |-> FALSE, kind |-> "none"]
NoRestart == [n |-> 0, result |-> "none"]
NoExec ==
    [args |-> <<>>, env |-> <<>>, parent |-> <<>>, dir |-> "", n |-> 0,
     log |-> <<>>, nextId |-> 1]
EmptyDisk == [d \in Dirs |-> <<>>]
Slot(ev, gid) == [ev |-> ev, gid |-> gid]
\* the listener goroutine: where it is, and the event it is about to send
\* (done: it has taken its ctx.Done case)
ListenerAt(pc) == [pc |-> pc, ev |-> ZeroPowerEvent, done |-> pc = "stopped"]

\* the argument of q.close in Queue.Close and in Queue.RestartProcess
DeferredCloseDelete == TRUE
RestartCloseDelete_deleting == TRUE
RestartCloseDelete == FALSE

\* a first instance: started by the user or the service manager, with or
\* without a restart budget in its environment
FirstEnvs ==
    {BaseEnv} \cup
    {Append(BaseEnv, <<restartEnvVar, Sprintf_d(n)>>) : n \in (-1)..MaxBudget}

\* the state of a process image that has just been started
FreshImage ==
    /\ cec = NoGuardian
    /\ qdir = ""
    /\ fsOpen = FALSE
    /\ inP = <<>> /\ inK = <<>> /\ outP = <<>> /\ outK = <<>>
    /\ chClosed = FALSE
    /\ relaypc = "none"
    /\ relayItem = Slot(ZeroPowerEvent, 0)
    /\ listener = ListenerAt("none")
    /\ mainpc = "start"
    /\ closing = NoClosing
    /\ ctxDone = FALSE
    /\ sigSent = FALSE
    /\ exitKind = "none"

SysInit ==
    /\ environ \in FirstEnvs
    /\ args = Args
    /\ instance = 0
    /\ restartRetries = 0
    /\ dirExists = {}
    /\ disk = EmptyDisk
    /\ FreshImage
    /\ nextId = 1
    /\ put = <<>>
    /\ gotP = <<>> /\ gotK = <<>>
    /\ pressed = <<>>
    /\ signalCh = <<>> /\ heard = <<>>
    /\ lastRestart = NoRestart
    /\ lastExec = NoExec
    /\ firstBudget = RestartRetries(environ)

\* a buffered channel made with capacity ChanCap: a send blocks while the
\* buffer is full
Full_never(ch) == FALSE
Full_always(ch) == TRUE
Full(ch) == Len(ch) >= ChanCap

Alive == mainpc # "exited"

(***************************************************************************)
(* Startup: runController up to the dispatch loop                          *)
(***************************************************************************)
\* the value of a command-line flag, "" when the flag is not given
FlagValue(argv, flag) ==
    IF \E i \in 1..(Len(argv) - 1) : argv[i] = flag
    THEN argv[1 + CHOOSE i \in 1..(Len(argv) - 1) : argv[i] = flag]
    ELSE ""

\* os.MkdirTemp: a directory that does not exist yet
MkdirTemp(existing) == CHOOSE d \in Dirs : d \notin existing

\* loadConfig: the directory named by the environment, else the one of
\* --queue-dir, else a fresh temporary one
ConfigQueueDir(env, argv, existing) ==
    IF QueueDirFromEnv(env) # "" THEN QueueDirFromEnv(env)
    ELSE IF FlagValue(argv, "--queue-dir") # "" THEN FlagValue(argv, "--queue-dir")
    ELSE MkdirTemp(existing)

\* NewQueue: goque.OpenQueue, and only then the channels and the relay
\* goroutine; on an error nothing is created
NewQueue_relayFirst(dir, openOk) ==
    [ok |-> openOk, dir |-> dir, fsOpen |-> openOk, relaypc |-> "select"]
NewQueue(dir, openOk) ==
    IF openOk
    THEN [ok |-> TRUE, dir |-> dir, fsOpen |-> TRUE, relaypc |-> "select"]
    ELSE [ok |-> FALSE, dir |-> "", fsOpen |-> FALSE, relaypc |-> "none"]

\* loadConfig and NewQueue; on an error runController returns before the
\* deferred Close is registered
Start ==
    /\ mainpc = "start"
    /\ LET d == ConfigQueueDir(environ, args, dirExists)
       IN  /\ restartRetries' = RestartRetries(environ)
           /\ \E openOk \in BOOLEAN :
                LET q == NewQueue(d, openOk)
                IN  /\ fsOpen' = q.fsOpen
                    /\ relaypc' = q.relaypc
                    /\ IF q.ok
                       THEN /\ qdir' = q.dir
                            /\ dirExists' = dirExists \cup {d}
                            /\ mainpc' = "opened"
                            /\ exitKind' = exitKind
                       ELSE /\ qdir' = qdir
                            /\ dirExists' = dirExists
                            /\ mainpc' = "exited"
                            /\ exitKind' = "error"
    /\ UNCHANGED <<cec, gcall, gcalls, environ, args, instance, disk, chanvars,
                   relayItem, listener, closing, ctxDone, sigSent, ghostvars,
                   lastRestart, lastExec, firstBudget>>

\* NewKeyMap and NewCEC; an error returns, and the deferred queue.Close() runs
StartCEC ==
    /\ mainpc = "opened"
    /\ \E openOk \in BOOLEAN :
         LET r == NewCECWithOpener(ConnectionRetries, openOk)
         IN  IF r.ok
             THEN /\ cec' = r.g
                  /\ mainpc' = "cec"
                  /\ closing' = closing
             ELSE /\ cec' = cec
                  /\ mainpc' = "close_ch"
                  /\ closing' = [delete |-> DeferredCloseDelete, kind |-> "error"]
    /\ UNCHANGED <<gcall, gcalls, envvars, storevars, chanvars, relayvars,
                   listener, ctxDone, sigSent, exitKind, ghostvars>>

\* CEC.Close
CloseCEC(g) ==
    IF g.conn # NIL THEN [g EXCEPT !.conn = NIL, !.open = @ \ {g.conn}] ELSE g

\* a boolean command-line flag
HasFlag(argv, flag) == \E i \in DOMAIN argv : argv[i] = flag
\* cfg.NoPowerEvents: PowerDevices defaults to [0] when empty and power
\* events are not disabled, so only the flag disables them
ConfigNoPowerEvents(argv) == HasFlag(argv, "--no-power-events")

\* if !cfg.NoPowerEvents: what runController sends on InPowerEvents before
\* it starts the listener
StartupEvents_none(noPowerEvents) == <<>>
StartupEvents(noPowerEvents) ==
    IF noPowerEvents THEN <<>> ELSE <<PowerEvent(PowerOn, TRUE)>>

\* the startup PowerOn event and PowerEventListener; an error returns, and
\* the deferred c.Close() and queue.Close() run
StartPower ==
    /\ mainpc = "cec"
    /\ LET evs == StartupEvents(ConfigNoPowerEvents(args))
       IN  /\ evs # <<>> => ~Full(inP)
           /\ inP' = inP \o [i \in DOMAIN evs |-> Slot(evs[i], nextId + i - 1)]
           /\ put' = put \o [i \in DOMAIN evs |->
                                [cat |-> "power", src |-> "startup", ev |-> evs[i]]]
           /\ nextId' = nextId + Len(evs)
    /\ IF ConfigNoPowerEvents(args)
       THEN /\ listener' = listener
            /\ mainpc' = "loop"
            /\ cec' = cec
            /\ closing' = closing
       ELSE \E busOk \in BOOLEAN :
              IF busOk
              THEN /\ listener' = ListenerAt("running")
                   /\ mainpc' = "loop"
                   /\ cec' = cec
                   /\ closing' = closing
              ELSE /\ listener' = listener
                   /\ mainpc' = "close_ch"
                   /\ cec' = CloseCEC(cec)
                   /\ closing' = [delete |-> DeferredCloseDelete, kind |-> "error"]
    /\ UNCHANGED <<gcall, gcalls, envvars, storevars, inK, outP, outK, chClosed,
                   relayvars, ctxDone, sigSent, exitKind, gotP, gotK, pressed, signalCh, heard>>

(***************************************************************************)
(* Producers: the key-press sink of libcec, the logind listener, signals   *)
(***************************************************************************)
\* the event the listener goroutine sends for a logind signal
ListenerEvent_swapped(name, active) ==
    IF name = "PrepareForSleep"
    THEN PowerEvent(IF active THEN PowerResume ELSE PowerSleep, active)
    ELSE PowerEvent(PowerShutdown, active)
ListenerEvent(name, active) ==
    IF name = "PrepareForSleep"
    THEN PowerEvent(IF active THEN PowerSleep ELSE PowerResume, active)
    ELSE PowerEvent(PowerShutdown, active)

\* *dbus.Signal: nil, or a name and a body of values
Bool(b) == [kind |-> "bool", b |-> b]
NotBool == [kind |-> "string", b |-> FALSE]
DBusSignal(name, body) == [nil |-> FALSE, Name |-> name, Body |-> body]
NilSignal == [nil |-> TRUE, Name |-> "", Body |-> <<>>]

\* sig == nil || len(sig.Body) == 0, and !ok of sig.Body[0].(bool)
Malformed_ignoreType(sig) == sig.nil \/ Len(sig.Body) = 0
Malformed(sig) == sig.nil \/ Len(sig.Body) = 0 \/ sig.Body[1].kind # "bool"
\* active of "active, ok := sig.Body[0].(bool)": false when not a bool
SignalActive(sig) == sig.Body[1].kind = "bool" /\ sig.Body[1].b

\* the listener goroutine after "case sig := <-signalCh": at its select
\* again, or at the send of the event of the signal
ListenerReceive(sig) ==
    IF Malformed(sig) \/ sig.Name \notin Signals
    THEN ListenerAt("running")
    ELSE [pc |-> "send", ev |-> ListenerEvent(sig.Name, SignalActive(sig)),
          done |-> FALSE]

\* the listener goroutine after "case <-ctx.Done()": it returns
AfterDone_continue == [pc |-> "running", ev |-> ZeroPowerEvent, done |-> TRUE]
AfterDone == ListenerAt("stopped")

\* events put so far by the sink and the listener, with the one the
\* listener is about to send
Produced ==
    Cardinality({i \in DOMAIN put : put[i].src # "startup"})
    + (IF listener.pc = "send" THEN 1 ELSE 0)

ProduceKey ==
    /\ Alive
    /\ cec.conn # NIL
    /\ cec.conn \in cec.sink
    /\ ~chClosed
    /\ ~Full(inK)
    /\ Produced < MaxEvents
    /\ \E code \in KeyCodes, d \in Durations :
         /\ inK' = Append(inK, Slot(KeyPress(code, d), nextId))
         /\ put' = Append(put, [cat |-> "key", src |-> "sink", ev |-> KeyPress(code, d)])
    /\ nextId' = nextId + 1
    /\ UNCHANGED <<gvars, envvars, storevars, inP, outP, outK, chClosed,
                   relayvars, listener, mainvars, gotP, gotK, pressed, signalCh, heard>>

\* case sig := <-signalCh: the goroutine computes the event and goes to
\* the send
ListenerSignal ==
    /\ Alive
    /\ listener.pc = "running"
    /\ Produced < MaxEvents
    /\ \E name \in Signals, active \in Actives :
         listener' = ListenerReceive(DBusSignal(name, <<Bool(active)>>))
    /\ UNCHANGED <<gvars, envvars, storevars, chanvars, relayvars, mainvars,
                   ghostvars>>

\* events <- PowerEvent{...}: blocks while InPowerEvents is full
ListenerSend ==
    /\ Alive
    /\ listener.pc = "send"
    /\ ~chClosed
    /\ ~Full(inP)
    /\ inP' = Append(inP, Slot(listener.ev, nextId))
    /\ put' = Append(put, [cat |-> "power", src |-> "listener", ev |-> listener.ev])
    /\ nextId' = nextId + 1
    /\ listener' = ListenerAt("running")
    /\ UNCHANGED <<gvars, envvars, storevars, inK, outP, outK, chClosed,
                   relayvars, mainvars, gotP, gotK, pressed, signalCh, heard>>

\* events <- PowerEvent{...} on the closed InPowerEvents panics, and the
\* panic ends the process
ListenerSendPanic ==
    /\ Alive
    /\ listener.pc = "send"
    /\ chClosed
    /\ listener' = ListenerAt("stopped")
    /\ mainpc' = "exited"
    /\ exitKind' = "panic"
    /\ UNCHANGED <<gvars, envvars, storevars, chanvars, relayvars, closing,
                   ctxDone, sigSent, ghostvars>>

\* <-ctx.Done() is ready once the context is cancelled
DoneReady_never(cancelled) == FALSE
DoneReady(cancelled) == cancelled

\* case <-ctx.Done() of the listener goroutine
ListenerStop ==
    /\ Alive
    /\ listener.pc = "running"
    /\ DoneReady(ctxDone)
    /\ listener' = AfterDone
    /\ UNCHANGED <<gvars, envvars, storevars, chanvars, relayvars, mainvars,
                   ghostvars>>

\* SIGINT or SIGTERM, once signal.NotifyContext is installed
Signal ==
    /\ mainpc \notin {"start", "exited"}
    /\ ~sigSent
    /\ sigSent' = TRUE
    /\ ctxDone' = TRUE
    /\ UNCHANGED <<gvars, envvars, storevars, chanvars, relayvars, listener,
                   mainpc, closing, exitKind, ghostvars>>

(***************************************************************************)
(* The relay goroutine of NewQueue                                         *)
(***************************************************************************)
Zeros(slots) == Cardinality({i \in DOMAIN slots : slots[i].gid = 0})
\* zero values read from closed channels that are in the system or were
\* dispatched
Phantoms ==
    Zeros(disk["d1"]) + Zeros(disk["d2"]) + Zeros(disk["d3"]) + Zeros(outP) + Zeros(outK)
    + Zeros(gotP) + Zeros(gotK)
    + (IF relaypc \in {"sendP", "sendK"} /\ relayItem.gid = 0 THEN 1 ELSE 0)

\* goque: items are appended at the tail and dequeued from the head
EnqueueObjectAsJSON_atHead(items, item) == <<item>> \o items
EnqueueObjectAsJSON(items, item) == Append(items, item)
Dequeue_fromTail(items) ==
    [item |-> items[Len(items)], rest |-> SubSeq(items, 1, Len(items) - 1)]
Dequeue(items) == [item |-> Head(items), rest |-> Tail(items)]

\* case <-ctx.Done()
R_Stop ==
    /\ Alive
    /\ relaypc = "select"
    /\ DoneReady(ctxDone)
    /\ relaypc' = "stopped"
    /\ UNCHANGED <<gvars, envvars, storevars, chanvars, relayItem, listener,
                   mainvars, ghostvars>>

\* case pe := <-inPowerEvents; a closed, empty channel yields the zero value
R_PersistP ==
    /\ Alive
    /\ relaypc = "select"
    /\ \/ inP # <<>>
       \/ chClosed /\ fsOpen /\ Phantoms < MaxPhantoms
    /\ LET slot == IF inP # <<>> THEN Head(inP) ELSE Slot(ZeroPowerEvent, 0)
           item == [Value |-> MarshalItem("power", MarshalPower(slot.ev)),
                    gid |-> slot.gid]
       IN  /\ inP' = IF inP # <<>> THEN Tail(inP) ELSE inP
           /\ disk' = IF fsOpen
                      THEN [disk EXCEPT ![qdir] = EnqueueObjectAsJSON(@, item)]
                      ELSE disk
    /\ UNCHANGED <<gvars, envvars, qdir, dirExists, fsOpen, inK, outP, outK,
                   chClosed, relayvars, listener, mainvars, ghostvars>>

\* case ke := <-inKeyEvents; a closed, empty channel yields a nil pointer
R_PersistK ==
    /\ Alive
    /\ relaypc = "select"
    /\ \/ inK # <<>>
       \/ chClosed /\ fsOpen /\ Phantoms < MaxPhantoms
    /\ LET slot == IF inK # <<>> THEN Head(inK) ELSE Slot(NilKey, 0)
           item == [Value |-> MarshalItem("key", MarshalKey(slot.ev)),
                    gid |-> slot.gid]
       IN  /\ inK' = IF inK # <<>> THEN Tail(inK) ELSE inK
           /\ disk' = IF fsOpen
                      THEN [disk EXCEPT ![qdir] = EnqueueObjectAsJSON(@, item)]
                      ELSE disk
    /\ UNCHANGED <<gvars, envvars, qdir, dirExists, fsOpen, inP, outP, outK,
                   chClosed, relayvars, listener, mainvars, ghostvars>>

\* default: taken only when no other case is ready
DefaultTaken_never == FALSE
DefaultTaken ==
    /\ relaypc = "select"
    /\ ~DoneReady(ctxDone) /\ ~chClosed /\ inP = <<>> /\ inK = <<>>

\* what the drain branch does with a dequeued value: an item it cannot
\* parse, of an unknown type, or with data it cannot parse is skipped
Skipped(v) ==
    \/ UnmarshalFails(v)
    \/ ItemType(v) \notin {"power", "key"}
    \/ UnmarshalFails(ItemData(v))

\* default, Dequeue returns an item: the item leaves the disk before it is
\* sent
R_Drain ==
    /\ Alive
    /\ DefaultTaken
    /\ fsOpen
    /\ disk[qdir] # <<>>
    /\ LET d == Dequeue(disk[qdir])
           v == d.item.Value
       IN  /\ disk' = [disk EXCEPT ![qdir] = d.rest]
           /\ IF Skipped(v)
              THEN UNCHANGED relayvars
              ELSE IF ItemType(v) = "power"
              THEN /\ relaypc' = "sendP"
                   /\ relayItem' = Slot(UnmarshalPower(ItemData(v)), d.item.gid)
              ELSE /\ relaypc' = "sendK"
                   /\ relayItem' = Slot(UnmarshalKey(ItemData(v)), d.item.gid)
    /\ UNCHANGED <<gvars, envvars, qdir, dirExists, fsOpen, chanvars, listener,
                   mainvars, ghostvars>>

\* default, Dequeue returns an error other than ErrEmpty and no item: the
\* error is logged, item.Value is read through the nil item, and the
\* nil dereference panics; the panic ends the process
R_DequeueError ==
    /\ Alive
    /\ DefaultTaken
    /\ fsOpen
    /\ disk[qdir] # <<>>
    /\ relaypc' = "readpanic"
    /\ relayItem' = relayItem
    /\ mainpc' = "exited"
    /\ exitKind' = "panic"
    /\ UNCHANGED <<gvars, envvars, storevars, chanvars, listener, closing,
                   ctxDone, sigSent, ghostvars>>

\* q.OutPowerEvents <- powerEvent
R_SendP ==
    /\ Alive
    /\ relaypc = "sendP"
    /\ ~chClosed
    /\ ~Full(outP)
    /\ outP' = Append(outP, relayItem)
    /\ relaypc' = "select"
    /\ UNCHANGED <<gvars, envvars, storevars, inP, inK, outK, chClosed,
                   relayItem, listener, mainvars, ghostvars>>

\* q.OutKeyEvents <- &keyEvent
R_SendK ==
    /\ Alive
    /\ relaypc = "sendK"
    /\ ~chClosed
    /\ ~Full(outK)
    /\ outK' = Append(outK, relayItem)
    /\ relaypc' = "select"
    /\ UNCHANGED <<gvars, envvars, storevars, inP, inK, outP, chClosed,
                   relayItem, listener, mainvars, ghostvars>>

\* a send on a closed channel panics, and the panic ends the process
R_SendPanic ==
    /\ Alive
    /\ relaypc \in {"sendP", "sendK"}
    /\ chClosed
    /\ relaypc' = "stopped"
    /\ mainpc' = "exited"
    /\ exitKind' = "panic"
    /\ UNCHANGED <<gvars, envvars, storevars, chanvars, relayItem, listener,
                   closing, ctxDone, sigSent, ghostvars>>

(***************************************************************************)
(* The dispatch loop of runController                                      *)
(***************************************************************************)
SysCmdScripts == [1..(2 * Len(PowerDevices)) -> CmdResults]
SysOpenScripts == [1..(Len(PowerDevices) * ConnectionRetries) -> BOOLEAN]

\* if kp == nil || kp.Duration != 0 { continue }
KeyIgnored_nilOnly(kp) == kp = NilKey
KeyIgnored(kp) == kp = NilKey \/ kp.Duration # 0

\* case kp := <-queue.OutKeyEvents
D_Key ==
    /\ mainpc = "loop"
    /\ outK # <<>>
    /\ gotK' = Append(gotK, Head(outK))
    /\ outK' = Tail(outK)
    /\ pressed' = IF KeyIgnored(Head(outK).ev) THEN pressed
                  ELSE Append(pressed, Head(outK).ev.KeyCode)
    /\ UNCHANGED <<gvars, envvars, storevars, inP, inK, outP, chClosed,
                   relayvars, listener, mainvars, nextId, put, gotP,
                   signalCh, heard>>

\* switch ev.Type: the method of the guardian the event is dispatched to
PowerOp_swapped(t) ==
    IF t \in {PowerOn, PowerResume} THEN "Standby" ELSE "PowerOn"
PowerOp(t) ==
    IF t \in {PowerOn, PowerResume} THEN "PowerOn"
    ELSE IF t \in {PowerSleep, PowerShutdown} THEN "Standby"
    ELSE "none"

\* case ev := <-queue.OutPowerEvents; a closed, empty channel yields the
\* zero value, whose Type is PowerOn
D_Power ==
    /\ mainpc = "loop"
    /\ \/ outP # <<>>
       \/ chClosed /\ Phantoms < MaxPhantoms
    /\ gotP' = Append(gotP, IF outP # <<>> THEN Head(outP) ELSE Slot(ZeroPowerEvent, 0))
    /\ outP' = IF outP # <<>> THEN Tail(outP) ELSE outP
    /\ \E cmds \in SysCmdScripts, opens \in SysOpenScripts :
         LET ev  == IF outP # <<>> THEN Head(outP).ev ELSE ZeroPowerEvent
             res == IF PowerOp(ev.Type) = "none"
                    THEN [g |-> cec, err |-> gcall.err, log |-> <<>>]
                    ELSE PowerCommand(cec, PowerDevices, cmds, opens)
         IN  /\ cec' = res.g
             /\ gcall' = [op |-> PowerOp(ev.Type), addrs |-> PowerDevices,
                          err |-> res.err, log |-> res.log]
             /\ IF res.err = "none"
                THEN UNCHANGED <<mainpc, closing, ctxDone>>
                ELSE IF res.err = "panic"
                THEN /\ mainpc' = "close_ch"
                     /\ closing' = [delete |-> DeferredCloseDelete, kind |-> "panic"]
                     /\ ctxDone' = ctxDone
                ELSE /\ mainpc' = "rp"
                     /\ ctxDone' = TRUE
                     /\ closing' = closing
    /\ UNCHANGED <<gcalls, envvars, storevars, inP, inK, outK, chClosed,
                   relayvars, listener, sigSent, exitKind, nextId, put, gotK,
                   pressed, signalCh, heard>>

\* case <-ctx.Done(): return nil, and the deferred c.Close() and
\* queue.Close() run
D_Done ==
    /\ mainpc = "loop"
    /\ DoneReady(ctxDone)
    /\ cec' = CloseCEC(cec)
    /\ mainpc' = "close_ch"
    /\ closing' = [delete |-> DeferredCloseDelete, kind |-> "graceful"]
    /\ UNCHANGED <<gcall, gcalls, envvars, storevars, chanvars, relayvars,
                   listener, ctxDone, sigSent, exitKind, ghostvars>>

(***************************************************************************)
(* Queue.RestartProcess, Queue.Close and Queue.close                       *)
(***************************************************************************)
\* RestartProcess up to q.close: the guard on the budget and os.Executable
RestartProcess ==
    /\ mainpc = "rp"
    /\ IF restartRefused(restartRetries)
       THEN /\ lastRestart' = [n |-> restartRetries, result |-> "refused"]
            /\ mainpc' = "loop"
            /\ closing' = closing
       ELSE \E pathOk \in BOOLEAN :
              IF pathOk
              THEN /\ mainpc' = "close_ch"
                   /\ closing' = [delete |-> RestartCloseDelete, kind |-> "restart"]
                   /\ lastRestart' = lastRestart
              ELSE /\ lastRestart' = [n |-> restartRetries, result |-> "nopath"]
                   /\ mainpc' = "loop"
                   /\ closing' = closing
    /\ UNCHANGED <<gvars, environ, args, instance, restartRetries, lastExec,
                   firstBudget, storevars, chanvars, relayvars, listener,
                   ctxDone, sigSent, exitKind, ghostvars>>

\* q.close: the four channels are closed
CloseChannels ==
    /\ mainpc = "close_ch"
    /\ ~chClosed
    /\ chClosed' = TRUE
    /\ mainpc' = "close_fs"
    /\ UNCHANGED <<gvars, envvars, storevars, inP, inK, outP, outK, relayvars,
                   listener, closing, ctxDone, sigSent, exitKind, ghostvars>>

\* q.close on channels that are closed already: close of a closed channel
\* panics; the deferred calls that remain run into the same panic
ClosePanic ==
    /\ mainpc = "close_ch"
    /\ chClosed
    /\ cec' = CloseCEC(cec)
    /\ mainpc' = "exited"
    /\ exitKind' = "panic"
    /\ UNCHANGED <<gcall, gcalls, envvars, storevars, chanvars, relayvars,
                   listener, closing, ctxDone, sigSent, ghostvars>>

\* os.RemoveAll(q.dir)
RemoveAll(existing, d) == existing \ {d}

\* q.close: q.fsQueue.Close(), then os.RemoveAll(q.dir) when delete is set
CloseStore ==
    /\ mainpc = "close_fs"
    /\ fsOpen' = FALSE
    /\ IF closing.delete
       THEN /\ dirExists' = RemoveAll(dirExists, qdir)
            /\ disk' = [disk EXCEPT ![qdir] = <<>>]
       ELSE UNCHANGED <<dirExists, disk>>
    /\ IF closing.kind = "restart"
       THEN /\ mainpc' = "exec"
            /\ exitKind' = exitKind
       ELSE /\ mainpc' = "exited"
            /\ exitKind' = closing.kind
    /\ UNCHANGED <<gvars, envvars, qdir, chanvars, relayvars, listener, closing,
                   ctxDone, sigSent, ghostvars>>

\* syscall.Exec succeeds: the image is replaced; files and the ghost record
\* of the lineage stay
ExecOk ==
    /\ mainpc = "exec"
    /\ instance < MaxRestarts
    /\ environ' = RestartEnv(environ, qdir, restartRetries)
    /\ args' = args
    /\ instance' = instance + 1
    /\ lastExec' = [args |-> args, env |-> environ', parent |-> environ,
                    dir |-> qdir, n |-> restartRetries,
                    log |-> disk[qdir], nextId |-> nextId]
    /\ lastRestart' = [n |-> restartRetries, result |-> "exec"]
    /\ cec' = NoGuardian
    /\ qdir' = ""
    /\ fsOpen' = FALSE
    /\ inP' = <<>> /\ inK' = <<>> /\ outP' = <<>> /\ outK' = <<>>
    /\ chClosed' = FALSE
    /\ relaypc' = "none"
    /\ relayItem' = Slot(ZeroPowerEvent, 0)
    /\ listener' = ListenerAt("none")
    /\ mainpc' = "start"
    /\ closing' = NoClosing
    /\ ctxDone' = FALSE
    /\ sigSent' = FALSE
    /\ exitKind' = "none"
    /\ gcall' = NoCall
    /\ UNCHANGED <<gcalls, restartRetries, firstBudget, dirExists, disk,
                   ghostvars>>

\* syscall.Exec fails: RestartProcess returns false and the loop goes on
ExecFail ==
    /\ mainpc = "exec"
    /\ lastRestart' = [n |-> restartRetries, result |-> "execfail"]
    /\ mainpc' = "loop"
    /\ closing' = NoClosing
    /\ UNCHANGED <<gvars, environ, args, instance, restartRetries, lastExec,
                   firstBudget, storevars, chanvars, relayvars, listener,
                   ctxDone, sigSent, exitKind, ghostvars>>

Init ==
    /\ SysInit
    /\ gcall = NoCall
    /\ gcalls = 0

Next ==
    \/ Start \/ StartCEC \/ StartPower
    \/ ProduceKey \/ ListenerSignal \/ ListenerSend \/ ListenerSendPanic
    \/ ListenerStop \/ Signal
    \/ R_Stop \/ R_PersistP \/ R_PersistK \/ R_Drain \/ R_DequeueError
    \/ R_SendP \/ R_SendK \/ R_SendPanic
    \/ D_Key \/ D_Power \/ D_Done
    \/ RestartProcess \/ CloseChannels \/ ClosePanic \/ CloseStore
    \/ ExecOk \/ ExecFail

Spec == Init /\ [][Next]_vars

\* the goroutines of the process: each one that can take a step is
\* scheduled eventually
MainThread ==
    \/ Start \/ StartCEC \/ StartPower \/ D_Key \/ D_Power \/ D_Done
    \/ RestartProcess \/ CloseChannels \/ ClosePanic \/ CloseStore
    \/ ExecOk \/ ExecFail
RelayThread ==
    \/ R_Stop \/ R_PersistP \/ R_PersistK \/ R_Drain \/ R_DequeueError
    \/ R_SendP \/ R_SendK \/ R_SendPanic
ListenerThread ==
    ListenerSignal \/ ListenerSend \/ ListenerSendPanic \/ ListenerStop
Fairness ==
    /\ WF_vars(MainThread) /\ WF_vars(RelayThread) /\ WF_vars(ListenerThread)

(***************************************************************************)
(* SpecListener: the goroutine of PowerEventListener with its signal       *)
(* channel, its events channel and its context, the events channel read by *)
(* nobody, as the tests of the listener drive it                           *)
(***************************************************************************)
SignalNames == Signals \cup {"SessionNew"}
Bodies == {<<>>, <<Bool(TRUE)>>, <<Bool(FALSE)>>, <<NotBool>>}
AllSignals ==
    {NilSignal} \cup {DBusSignal(name, body) : name \in SignalNames, body \in Bodies}

LInit ==
    /\ cec = NoGuardian /\ gcall = NoCall /\ gcalls = 0
    /\ environ = BaseEnv /\ args = Args /\ instance = 0 /\ restartRetries = 0
    /\ dirExists = {} /\ disk = EmptyDisk /\ qdir = "" /\ fsOpen = FALSE
    /\ inP = <<>> /\ inK = <<>> /\ outP = <<>> /\ outK = <<>>
    /\ chClosed = FALSE
    /\ relaypc = "none" /\ relayItem = Slot(ZeroPowerEvent, 0)
    /\ listener = ListenerAt("running")
    /\ mainpc = "start" /\ closing = NoClosing
    /\ ctxDone = FALSE /\ sigSent = FALSE /\ exitKind = "none"
    /\ nextId = 1 /\ put = <<>>
    /\ gotP = <<>> /\ gotK = <<>> /\ pressed = <<>>
    /\ signalCh = <<>> /\ heard = <<>>
    /\ lastRestart = NoRestart /\ lastExec = NoExec /\ firstBudget = 0

\* signals delivered so far
Delivered == Len(signalCh) + Len(heard)

\* the bus delivers a signal on signalCh; late: the context was
\* cancelled before
L_Deliver ==
    /\ Delivered < MaxSignals
    /\ ~Full(signalCh)
    /\ \E sig \in AllSignals :
         signalCh' = Append(signalCh, [sig |-> sig, late |-> ctxDone])
    /\ UNCHANGED <<gvars, envvars, storevars, chanvars, relayvars, listener,
                   mainvars, nextId, put, gotP, gotK, pressed, heard>>

\* case sig := <-signalCh
L_Receive ==
    /\ listener.pc = "running"
    /\ signalCh # <<>>
    /\ listener' = ListenerReceive(Head(signalCh).sig)
    /\ heard' = Append(heard, Head(signalCh))
    /\ signalCh' = Tail(signalCh)
    /\ UNCHANGED <<gvars, envvars, storevars, chanvars, relayvars, mainvars,
                   nextId, put, gotP, gotK, pressed>>

\* cancel() of the listener's context
L_Cancel ==
    /\ ~ctxDone
    /\ ctxDone' = TRUE
    /\ UNCHANGED <<gvars, envvars, storevars, chanvars, relayvars, listener,
                   mainpc, closing, sigSent, exitKind, ghostvars>>

LNext == L_Deliver \/ L_Receive \/ ListenerSend \/ ListenerStop \/ L_Cancel
SpecListener == LInit /\ [][LNext]_vars

\* first instances started with and without the directory variable (set
\* to a directory, or set to the empty string) and with and without
\* --queue-dir, with and without --no-power-events; no key presses or
\* process signals arrive
DirEnvs ==
    {BaseEnv,
     Append(BaseEnv, <<queueDirEnvVar, "">>),
     Append(BaseEnv, <<queueDirEnvVar, "d2">>)}
DirArgs ==
    {Args, Args \o <<"--queue-dir", "d3">>, Args \o <<"--no-power-events">>}
DInit ==
    /\ environ \in DirEnvs
    /\ args \in DirArgs
    /\ instance = 0
    /\ restartRetries = 0
    /\ dirExists = {}
    /\ disk = EmptyDisk
    /\ FreshImage
    /\ nextId = 1
    /\ put = <<>>
    /\ gotP = <<>> /\ gotK = <<>>
    /\ pressed = <<>>
    /\ signalCh = <<>> /\ heard = <<>>
    /\ lastRestart = NoRestart
    /\ lastExec = NoExec
    /\ firstBudget = RestartRetries(environ)
    /\ gcall = NoCall
    /\ gcalls = 0
DNext ==
    \/ Start \/ StartCEC \/ StartPower
    \/ ListenerSignal \/ ListenerSend \/ ListenerStop
    \/ R_Stop \/ R_PersistP \/ R_Drain \/ R_SendP \/ R_SendPanic
    \/ D_Power \/ D_Done
    \/ RestartProcess \/ CloseChannels \/ ClosePanic \/ CloseStore
    \/ ExecOk \/ ExecFail
SpecDir == DInit /\ [][DNext]_vars

\* a first instance started with a budget of one restart, under fair
\* scheduling
OneRestartEnv == Append(BaseEnv, <<restartEnvVar, Sprintf_d(1)>>)
CInit == Init /\ environ = OneRestartEnv
\* Next without the key-press sink of libcec
CNext ==
    \/ Start \/ StartCEC \/ StartPower
    \/ ListenerSignal \/ ListenerSend \/ ListenerSendPanic
    \/ ListenerStop \/ Signal
    \/ R_Stop \/ R_PersistP \/ R_PersistK \/ R_Drain \/ R_DequeueError
    \/ R_SendP \/ R_SendK \/ R_SendPanic
    \/ D_Key \/ D_Power \/ D_Done
    \/ RestartProcess \/ CloseChannels \/ ClosePanic \/ CloseStore
    \/ ExecOk \/ ExecFail
SpecCancel == CInit /\ [][CNext]_vars /\ Fairness

(***************************************************************************)
(* SpecQueue: the queue, its relay and the dispatch loop at work in one    *)
(* instance, from the entry of the loop, with senders that put every       *)
(* variant of event on the ingress channels                                *)
(***************************************************************************)
PowerEventTypes == {PowerOn, PowerSleep, PowerResume, PowerShutdown}
AllPowerEvents == {PowerEvent(t, a) : t \in PowerEventTypes, a \in BOOLEAN}
AllKeyPresses == {KeyPress(code, d) : code \in {0, 1}, d \in Durations}

\* runController at the entry of its loop: the queue, the guardian and the
\* listener are up, and the startup event is on InPowerEvents
QInit ==
    /\ cec = NewCECWithOpener(ConnectionRetries, TRUE).g
    /\ gcall = NoCall
    /\ gcalls = 0
    /\ environ = BaseEnv
    /\ args = Args
    /\ instance = 0
    /\ restartRetries = RestartRetries(BaseEnv)
    /\ firstBudget = RestartRetries(BaseEnv)
    /\ qdir = "d1"
    /\ dirExists = {"d1"}
    /\ disk = EmptyDisk
    /\ fsOpen = TRUE
    /\ inP = <<Slot(PowerEvent(PowerOn, TRUE), 1)>>
    /\ inK = <<>> /\ outP = <<>> /\ outK = <<>>
    /\ chClosed = FALSE
    /\ relaypc = "select"
    /\ relayItem = Slot(ZeroPowerEvent, 0)
    /\ listener = ListenerAt("running")
    /\ mainpc = "loop"
    /\ closing = NoClosing
    /\ ctxDone = FALSE
    /\ sigSent = FALSE
    /\ exitKind = "none"
    /\ nextId = 2
    /\ put = <<[cat |-> "power", src |-> "startup", ev |-> PowerEvent(PowerOn, TRUE)]>>
    /\ gotP = <<>> /\ gotK = <<>>
    /\ pressed = <<>>
    /\ signalCh = <<>> /\ heard = <<>>
    /\ lastRestart = NoRestart
    /\ lastExec = NoExec

\* q.InPowerEvents <- ev
PutPower ==
    /\ Alive
    /\ ~chClosed
    /\ ~Full(inP)
    /\ Produced < MaxQueueEvents
    /\ \E ev \in AllPowerEvents :
         /\ inP' = Append(inP, Slot(ev, nextId))
         /\ put' = Append(put, [cat |-> "power", src |-> "sender", ev |-> ev])
    /\ nextId' = nextId + 1
    /\ UNCHANGED <<gvars, envvars, storevars, inK, outP, outK, chClosed,
                   relayvars, listener, mainvars, gotP, gotK, pressed, signalCh, heard>>

\* q.InKeyEvents <- kp
PutKey ==
    /\ Alive
    /\ ~chClosed
    /\ ~Full(inK)
    /\ Produced < MaxQueueEvents
    /\ \E kp \in AllKeyPresses :
         /\ inK' = Append(inK, Slot(kp, nextId))
         /\ put' = Append(put, [cat |-> "key", src |-> "sender", ev |-> kp])
    /\ nextId' = nextId + 1
    /\ UNCHANGED <<gvars, envvars, storevars, inP, outP, outK, chClosed,
                   relayvars, listener, mainvars, gotP, gotK, pressed, signalCh, heard>>

\* the bytes of a stored item are damaged on disk: the whole value, or
\* the data inside it
Damaged(v) == UnmarshalFails(v) \/ UnmarshalFails(ItemData(v))
CorruptItem ==
    /\ Alive
    /\ fsOpen
    /\ Cardinality({i \in DOMAIN disk[qdir] : Damaged(disk[qdir][i].Value)}) < MaxCorrupt
    /\ \E i \in DOMAIN disk[qdir], whole \in BOOLEAN :
         LET v == disk[qdir][i].Value
         IN  disk' = [disk EXCEPT ![qdir][i].Value =
                        IF whole THEN JsonInvalid
                        ELSE MarshalItem(ItemType(v), JsonInvalid)]
    /\ UNCHANGED <<gvars, envvars, qdir, dirExists, fsOpen, chanvars, relayvars,
                   listener, mainvars, ghostvars>>

QNext ==
    \/ PutPower \/ PutKey \/ CorruptItem
    \/ R_PersistP \/ R_PersistK \/ R_Drain \/ R_DequeueError
    \/ R_SendP \/ R_SendK
    \/ D_Key \/ D_Power

SpecQueue == QInit /\ [][QNext]_vars

\* SpecQueue without damage to stored items, under fair scheduling of the
\* relay goroutine and of the dispatch loop; the producers are not obliged
\* to produce
RelaySteps ==
    \/ R_PersistP \/ R_PersistK \/ R_Drain \/ R_DequeueError
    \/ R_SendP \/ R_SendK
LoopSteps == D_Key \/ D_Power
RNext == PutPower \/ PutKey \/ RelaySteps \/ LoopSteps
RFairness == WF_vars(RelaySteps) /\ WF_vars(LoopSteps)
SpecRelay == QInit /\ [][RNext]_vars /\ RFairness

(***************************************************************************)
(* SpecGuardian: a CEC object built by NewCECWithOpener with a configured  *)
(* retry count, then called through PowerOn and Standby.                   *)
(***************************************************************************)
\* address lists passed by the caller: the default [0] and the pair [0, 1]
AddrLists == {<<0>>, <<0, 1>>}
\* scripts long enough for one call: two invocations and one reopen an address
CmdScripts == [1..4 -> CmdResults]
OpenScripts == [1..(2 * MaxRetries) -> BOOLEAN]


\* the process of Spec, not started: SpecGuardian leaves it alone
SysIdle ==
    /\ environ = BaseEnv
    /\ args = Args
    /\ instance = 0
    /\ restartRetries = 0
    /\ dirExists = {}
    /\ disk = EmptyDisk
    /\ qdir = ""
    /\ fsOpen = FALSE
    /\ inP = <<>> /\ inK = <<>> /\ outP = <<>> /\ outK = <<>>
    /\ chClosed = FALSE
    /\ relaypc = "none"
    /\ relayItem = Slot(ZeroPowerEvent, 0)
    /\ listener = ListenerAt("none")
    /\ mainpc = "start"
    /\ closing = NoClosing
    /\ ctxDone = FALSE
    /\ sigSent = FALSE
    /\ exitKind = "none"
    /\ nextId = 1
    /\ put = <<>>
    /\ gotP = <<>> /\ gotK = <<>>
    /\ pressed = <<>>
    /\ signalCh = <<>> /\ heard = <<>>
    /\ lastRestart = NoRestart
    /\ lastExec = NoExec
    /\ firstBudget = 0

GInit ==
    /\ \E r \in (-1)..MaxRetries : cec = NewCECWithOpener(r, TRUE).g
    /\ gcall = NoCall
    /\ gcalls = 0
    /\ SysIdle

\* one call of CEC.PowerOn or CEC.Standby
GuardianCall ==
    /\ gcalls < MaxCalls
    /\ gcall.err # "panic"
    /\ \E op \in {"PowerOn", "Standby"}, addrs \in AddrLists,
          cmds \in CmdScripts, opens \in OpenScripts :
          LET res == PowerCommand(cec, addrs, cmds, opens)
          IN  /\ cec' = res.g
              /\ gcall' = [op |-> op, addrs |-> addrs, err |-> res.err, log |-> res.log]
    /\ gcalls' = gcalls + 1
    /\ UNCHANGED sysvars

GNext == GuardianCall

SpecGuardian == GInit /\ [][GNext]_vars

(***************************************************************************)
(* Reading a call's log                                                    *)
(***************************************************************************)
IsCmd(e) == e[1] = "cmd"
CmdsAt(log, k) == SelectSeq(log, LAMBDA e : IsCmd(e) /\ e[2] = k)
ReopensAt(log, k) == SelectSeq(log, LAMBDA e : e[1] = "reopen" /\ e[2] = k)
AllCmds(log) == SelectSeq(log, IsCmd)
OpenAttempts(log) == SelectSeq(log, LAMBDA e : e[1] = "open" \/ e[1] = "openfail")
FailedOpens(log) == SelectSeq(log, LAMBDA e : e[1] = "openfail")
\* the position of the address the call ended on
LastPos(log) == LET c == AllCmds(log) IN IF c = <<>> THEN 0 ELSE c[Len(c)][2]
FailThenSuccess(log, k) ==
    LET c == CmdsAt(log, k)
    IN  Len(c) >= 2 /\ c[1][5] = "nil" /\ c[2][5] = "err"

(***************************************************************************)
(* C4: when the command fails (nil) on its first invocation for an address *)
(* and succeeds (non-nil) on the next, the call makes exactly one          *)
(* reconnect and exactly one retry for that address, and does not end in   *)
(* an error there: a call for that single address returns nil.             *)
(***************************************************************************)
C4_FailOnceThenSucceed ==
    \A k \in 1..Len(gcall.addrs) :
        FailThenSuccess(gcall.log, k) =>
            /\ Len(CmdsAt(gcall.log, k)) = 2
            /\ Len(ReopensAt(gcall.log, k)) = 1
            /\ (gcall.err # "none" => LastPos(gcall.log) # k)
            /\ (Len(gcall.addrs) = 1 => gcall.err = "none")

C4_Witness ==
    /\ gcall.addrs = <<0>>
    /\ FailThenSuccess(gcall.log, 1)
    /\ gcall.err = "none"

(***************************************************************************)
(* C5, as stated: when the command fails on every invocation, the call     *)
(* makes retryBudget open attempts and returns a hard error.               *)
(***************************************************************************)
EveryCmdFails(log) ==
    /\ AllCmds(log) # <<>>
    /\ \A i \in DOMAIN log : IsCmd(log[i]) => log[i][5] = "nil"

C5_AsStated ==
    EveryCmdFails(gcall.log) =>
        /\ gcall.err \in {"reopen", "retry"}
        /\ Len(OpenAttempts(gcall.log)) = cec.retries

(***************************************************************************)
(* C5, amended: when the command fails on every invocation, the call       *)
(* returns a hard error after one reconnect of at most retryBudget open    *)
(* attempts: exactly retryBudget when every attempt fails (the command is  *)
(* then not retried), fewer or as many when an attempt succeeds (the       *)
(* command is then retried once, and its failure is the error).            *)
(***************************************************************************)
C5_AlwaysFailing ==
    EveryCmdFails(gcall.log) =>
        LET att == OpenAttempts(gcall.log)
            bad == FailedOpens(gcall.log)
        IN  /\ gcall.err \in {"reopen", "retry"}
            /\ Len(ReopensAt(gcall.log, 1)) = 1
            /\ Len(att) >= 1 /\ Len(att) <= cec.retries
            /\ gcall.err = "reopen" =>
                   /\ Len(bad) = cec.retries /\ Len(att) = cec.retries
                   /\ Len(AllCmds(gcall.log)) = 1
            /\ gcall.err = "retry" =>
                   /\ Len(bad) = Len(att) - 1
                   /\ Len(AllCmds(gcall.log)) = 2

C5_Witness ==
    /\ EveryCmdFails(gcall.log)
    /\ cec.retries = 2
    /\ gcall.err = "reopen"
    /\ Len(FailedOpens(gcall.log)) = 2

(***************************************************************************)
(* C6: the inverted polarity is applied exactly.  A non-nil result is a    *)
(* success: the next thing the call does is the command for the next       *)
(* address, or return nil.  A nil result is a failure: on the first        *)
(* invocation for an address a reconnect is entered, on the retry the call *)
(* ends with a hard error.                                                 *)
(***************************************************************************)
C6_Polarity ==
    \A i \in DOMAIN gcall.log :
        LET e    == gcall.log[i]
            last == i = Len(gcall.log)
            nxt  == gcall.log[i + 1]
            retry == \E j \in 1..(i - 1) : IsCmd(gcall.log[j]) /\ gcall.log[j][2] = e[2]
        IN  IsCmd(e) =>
              /\ e[5] = "err" =>
                   IF last THEN gcall.err = "none" /\ e[2] = Len(gcall.addrs)
                   ELSE IsCmd(nxt) /\ nxt[2] = e[2] + 1
              /\ (e[5] = "nil" /\ ~retry) =>
                   ~last /\ nxt = <<"reopen", e[2]>>
              /\ (e[5] = "nil" /\ retry) =>
                   last /\ gcall.err = "retry"

C6_Witness ==
    /\ Len(gcall.log) >= 2
    /\ \E i \in DOMAIN gcall.log : IsCmd(gcall.log[i]) /\ gcall.log[i][5] = "nil"
    /\ \E i \in DOMAIN gcall.log : IsCmd(gcall.log[i]) /\ gcall.log[i][5] = "err"
    /\ gcall.err = "none"

(***************************************************************************)
(* The relay, the restart and the log directory: claims checked under Spec *)
(***************************************************************************)
IsPrefix(a, b) == Len(a) <= Len(b) /\ SubSeq(b, 1, Len(a)) = a
HasId(slots, id) == \E i \in DOMAIN slots : slots[i].gid = id
Received(id) == HasId(gotP, id) \/ HasId(gotK, id)
Pending(id) ==
    \/ HasId(inP, id) \/ HasId(inK, id) \/ HasId(outP, id) \/ HasId(outK, id)
    \/ relaypc \in {"sendP", "sendK"} /\ relayItem.gid = id
    \/ \E d \in Dirs : HasId(disk[d], id)
\* no termination signal, no exit, and every restart so far replaced the image
RecoveryOnly ==
    /\ ~sigSent
    /\ exitKind = "none"
    /\ closing.kind \in {"none", "restart"}
    /\ lastRestart.result \in {"none", "exec"}

\* C1 (as stated): at-least-once delivery.  While the lineage has only gone
\* through recovery restarts, every event a producer put on an ingress
\* channel has been received by a dispatch loop or is still held somewhere
\* (a channel, the relay, the log) from where it can be received.
C1_AtLeastOnce ==
    RecoveryOnly => \A id \in DOMAIN put : Received(id) \/ Pending(id)

\* C2 (as stated): the log directory is deleted only by a graceful
\* dispatch-loop exit: a step that removes the directory of the running
\* queue belongs to the close that follows the loop's return on ctx.Done().
C2_DeletedOnlyGracefully ==
    [][(qdir \in dirExists /\ qdir \notin dirExists') => closing.kind = "graceful"]_vars

RealIds(slots) == {i \in DOMAIN slots : slots[i].gid # 0}
InPutOrder(slots, cat) ==
    /\ \A i \in RealIds(slots) : put[slots[i].gid].cat = cat
    /\ \A i, j \in RealIds(slots) : i < j => slots[i].gid < slots[j].gid

C7_RefusedRestart ==
    [][(mainpc = "rp" /\ restartRetries <= 0 /\ mainpc' \notin {"rp", "exited"})
        => /\ mainpc' = "loop"
           /\ lastRestart' = [n |-> restartRetries, result |-> "refused"]
           /\ UNCHANGED <<chanvars, storevars, relayvars, environ, args,
                          instance, restartRetries, lastExec>>
           /\ ~chClosed' /\ fsOpen' /\ qdir' \in dirExists']_vars

\* RestartProcess was called with a budget that is not positive and returned
C7_Witness ==
    /\ lastRestart.result = "refused"
    /\ lastRestart.n <= 0
    /\ mainpc = "loop"
    /\ fsOpen /\ ~chClosed

InRestart == mainpc \in {"close_ch", "close_fs", "exec"} /\ closing.kind = "restart"

\* C8: RestartProcess(n) with n > 0 closes the queue without deleting: from
\* the close to the replacement (or its failure) the directory exists and
\* no item leaves the log, and at syscall.Exec the channels and the store
\* are closed.
C8_RestartKeepsLog ==
    [][/\ InRestart => /\ restartRetries > 0
                       /\ dirExists' = dirExists
                       /\ qdir \in dirExists'
                       /\ IsPrefix(disk[qdir], disk'[qdir])
       /\ mainpc' = "exec" => /\ chClosed' /\ ~fsOpen'
                              /\ ~closing'.delete
                              /\ qdir' \in dirExists']_vars

\* syscall.Exec is about to be called and the log holds items
C8_Witness ==
    /\ mainpc = "exec"
    /\ restartRetries > 0
    /\ disk[qdir] # <<>>
    /\ qdir \in dirExists

\* C9 (as stated): a lineage whose first instance holds budget n replaces
\* the process at most n times.
C9_ChainBounded == instance <= (IF firstBudget > 0 THEN firstBudget ELSE 0)

EnvNames(env) == {env[i][1] : i \in DOMAIN env}

\* C10 (as stated): the replacement is started with the arguments unchanged
\* and with the parent's environment plus the log-directory variable set to
\* the queue's directory and the restart-budget variable set to n-1.
C10_ReplacementEnvironment ==
    lastExec # NoExec =>
        /\ lastExec.args = Args
        /\ \A name \in EnvNames(lastExec.parent) \ {queueDirEnvVar, restartEnvVar} :
             Getenv(lastExec.env, name) = Getenv(lastExec.parent, name)
        /\ Getenv(lastExec.env, queueDirEnvVar) = lastExec.dir
        /\ Getenv(lastExec.env, restartEnvVar) = Sprintf_d(lastExec.n - 1)

\* RestartProcess returned in this instance without replacing the process
RestartFailed == lastRestart.result \in {"refused", "nopath", "execfail"}

\* C11 (as stated): after a hard error of the guardian and a restart that
\* did not replace the process, the dispatch loop receives no further event
\* (and so issues no further command), and the process does not end with
\* the zero status of a graceful return.
C11_FailedRestartIsFatal ==
    [][(mainpc = "loop" /\ RestartFailed)
        => /\ gotP' = gotP /\ gotK' = gotK
           /\ exitKind' # "graceful"
           /\ (mainpc' = "close_ch" => closing'.kind # "graceful")]_vars

(***************************************************************************)
(* The queue and the dispatch loop: claims checked under SpecQueue         *)
(***************************************************************************)
EqualsPut(slots) == \A i \in RealIds(slots) : slots[i].ev = put[slots[i].gid].ev

\* C12: round trip.  Every event the dispatch loop receives from an egress
\* channel, after it was put on the ingress channel, persisted, dequeued
\* and decoded, equals the event that was put, for every variant of power
\* event and of key press.
C12_RoundTrip == EqualsPut(gotP) /\ EqualsPut(gotK)

\* PowerEvent{Shutdown, true} and a key press held for 120 ms went through
C12_Witness ==
    /\ \E i \in RealIds(gotP) : gotP[i].ev = PowerEvent(PowerShutdown, TRUE)
    /\ \E i \in RealIds(gotK) : gotK[i].ev = KeyPress(1, 120)

\* ---------------------------------------------------------------------
\* C13: the guardian's connection changes only inside a reopen: a failed
\* command leads to a reopen, a successful open of that reopen gives a
\* fresh connection, an exhausted reopen leaves none and returns the hard
\* error; and once there is none, no later call of the instance brings a
\* connection back.
HasEntry(log, kind) == \E i \in 1..Len(log) : log[i][1] = kind
LastEntry(log, kind) ==
    log[CHOOSE i \in 1..Len(log) :
          log[i][1] = kind /\ \A j \in (i + 1)..Len(log) : log[j][1] # kind]
Connected(g) == g.conn # NIL
C13_FailedIsTerminal ==
    [][/\ (~Connected(cec) => ~Connected(cec'))
       /\ (cec'.conn # cec.conn
             => /\ HasEntry(gcall'.log, "reopen")
                /\ \E i \in 1..Len(gcall'.log) :
                      /\ gcall'.log[i][1] = "cmd"
                      /\ cmdFailed(gcall'.log[i][5]))
       /\ (Connected(cec') /\ cec'.conn # cec.conn
             => LastEntry(gcall'.log, "open") = <<"open", cec'.conn>>)
       /\ (Connected(cec) /\ ~Connected(cec') <=> gcall'.err = "reopen")]_vars
C13_Witness == ~Connected(cec) /\ gcall.err = "panic" /\ gcalls = 2

\* ---------------------------------------------------------------------
\* C14: at most one connection handle is open at any time: the guardian
\* holds exactly its current handle while connected and none otherwise,
\* and within a call every attempt to open is preceded by the close of
\* the handle that was open before it, with no open in between.
IsOpenAttempt(entry) == entry[1] \in {"open", "openfail"}
ClosedBefore(log, i) ==
    \E j \in 1..(i - 1) :
        /\ log[j][1] = "close"
        /\ \A m \in (j + 1)..(i - 1) : log[m][1] # "open"
C14_OneLiveHandle ==
    /\ Cardinality(cec.open) <= 1
    /\ (Connected(cec) => cec.open = {cec.conn})
    /\ (~Connected(cec) => cec.open = {})
    /\ \A i \in 1..Len(gcall.log) :
          IsOpenAttempt(gcall.log[i]) => ClosedBefore(gcall.log, i)
C14_Witness ==
    /\ Connected(cec) /\ cec.conn = 3 /\ cec.open = {3}
    /\ HasEntry(gcall.log, "close") /\ HasEntry(gcall.log, "open")

\* ---------------------------------------------------------------------
\* C15: the key codes handed to the key map are exactly the key codes of
\* the received key events whose Duration is zero, in the order received;
\* receiving a key event with a nonzero Duration changes nothing but the
\* egress queue it was taken from.
KeyCodes_of(slots) == [i \in 1..Len(slots) |-> slots[i].ev.KeyCode]
ZeroDurationCodes(slots) ==
    KeyCodes_of(SelectSeq(slots, LAMBDA sl : sl.ev # NilKey /\ sl.ev.Duration = 0))
C15_KeyFilter ==
    /\ [](pressed = ZeroDurationCodes(gotK))
    /\ [][(gotK' # gotK /\ gotK'[Len(gotK')].ev.Duration # 0)
            => UNCHANGED <<pressed, gvars, envvars, storevars, inP, inK, outP,
                           chClosed, relayvars, listener, mainvars>>]_vars
C15_Witness ==
    /\ \E i \in 1..Len(gotK) : gotK[i].ev = KeyPress(1, 120)
    /\ \E i \in 1..Len(gotK) : gotK[i].ev = KeyPress(1, 0)
    /\ pressed = <<1>>

\* ---------------------------------------------------------------------
\* C16: for every power event the loop receives, Type On or Resume calls
\* PowerOn and Type Sleep or Shutdown calls Standby, each with all the
\* configured device addresses, and every command the call sends goes to
\* a configured address.
PowerReceived == gotP' # gotP
LastGot(slots) == slots[Len(slots)].ev
C16_PowerDispatch ==
    [][PowerReceived =>
         /\ (LastGot(gotP').Type \in {PowerOn, PowerResume} => gcall'.op = "PowerOn")
         /\ (LastGot(gotP').Type \in {PowerSleep, PowerShutdown} => gcall'.op = "Standby")
         /\ gcall'.addrs = PowerDevices
         /\ \A i \in 1..Len(gcall'.log) :
               IsCmd(gcall'.log[i]) => gcall'.log[i][3] = PowerDevices[gcall'.log[i][2]]
         /\ (gcall'.err = "none" =>
               \A k \in 1..Len(PowerDevices) : CmdsAt(gcall'.log, k) # <<>>)]_vars
C16_Witness ==
    /\ \E i \in 1..Len(gotP) : gotP[i].ev.Type = PowerResume
    /\ LastGot(gotP).Type = PowerSleep
    /\ gcall.op = "Standby" /\ gcall.err = "none"

\* ---------------------------------------------------------------------
\* C17: the commands of one call go to the addresses in the order they
\* were given (the k-th address commanded is addrs[k], and k never goes
\* back), all by the one operation of the call, and an address is
\* commanded only after the last command of each earlier address
\* succeeded.
Succeeded(log, k) ==
    LET c == CmdsAt(log, k) IN c # <<>> /\ ~cmdFailed(c[Len(c)][5])
C17_InOrderAfterSuccess ==
    LET log == gcall.log
    IN  \A i \in 1..Len(log) :
          IsCmd(log[i]) =>
            /\ log[i][3] = gcall.addrs[log[i][2]]
            /\ \A j \in 1..(i - 1) : IsCmd(log[j]) => log[j][2] <= log[i][2]
            /\ \A k \in 1..(log[i][2] - 1) : Succeeded(log, k)
C17_Witness ==
    /\ gcall.op = "Standby" /\ gcall.addrs = <<0, 1>> /\ gcall.err = "none"
    /\ Len(AllCmds(gcall.log)) = 2
    /\ AllCmds(gcall.log)[1][3] = 0 /\ AllCmds(gcall.log)[2][3] = 1

\* ---------------------------------------------------------------------
\* C18: with r the configured number of retries, a reopen in which every
\* open fails makes exactly max(1, r) open attempts and then returns the
\* error, and no reopen makes more attempts than that.
Max(a, b) == IF a >= b THEN a ELSE b
\* the open attempts of the reopen logged at position i
AttemptsOf(log, i) ==
    {j \in (i + 1)..Len(log) :
        /\ IsOpenAttempt(log[j])
        /\ \A m \in (i + 1)..j : log[m][1] \notin {"cmd", "reopen"}}
LastReopen(log) ==
    CHOOSE i \in 1..Len(log) :
        log[i][1] = "reopen" /\ \A j \in (i + 1)..Len(log) : log[j][1] # "reopen"
C18_ClampedBudget ==
    LET log == gcall.log
        budget == Max(1, cec.configured)
    IN  /\ \A i \in 1..Len(log) :
              log[i][1] = "reopen" => Cardinality(AttemptsOf(log, i)) <= budget
        /\ (gcall.err = "reopen" =>
              LET tried == AttemptsOf(log, LastReopen(log))
              IN  /\ Cardinality(tried) = budget
                  /\ \A j \in tried : log[j][1] = "openfail"
                  /\ log[Len(log)][1] = "openfail")
C18_Witness == cec.configured = -1 /\ gcall.err = "reopen"

\* ---------------------------------------------------------------------
\* C19: once the context is cancelled, the relay goroutine and the
\* listener goroutine eventually run no more: each has returned, or the
\* process that ran them has ended or has been replaced.
TaskStopped(pc) == pc \in {"none", "stopped"}
TasksStopped == ~Alive \/ (TaskStopped(relaypc) /\ TaskStopped(listener.pc))
C19_CancelStopsTasks == ctxDone ~> TasksStopped
C19_Witness ==
    ctxDone /\ Alive /\ relaypc = "stopped" /\ listener.pc = "stopped"

\* ---------------------------------------------------------------------
\* C20: a stored item that cannot be read or parsed does not end the relay
\* goroutine or the process: the relay is back at its select, and the
\* items behind the failed one are still delivered.
C20_ItemFailureNotFatal ==
    [][(DefaultTaken /\ fsOpen /\ disk[qdir] # <<>> /\ relaypc' # relaypc)
         => relaypc' \in {"sendP", "sendK"} /\ Alive']_vars

\* ---------------------------------------------------------------------
\* C21: when the store cannot be opened at startup, no relay goroutine is
\* started and no channel or store is left in use, runController returns
\* the error without reaching its loop, and the instance dispatches
\* nothing afterwards.
OpenFailed == mainpc = "start" /\ mainpc' # "opened" /\ mainpc' # mainpc
C21_OpenFailureIsFatal ==
    /\ [][OpenFailed =>
            /\ mainpc' = "exited" /\ exitKind' = "error"
            /\ relaypc' = "none" /\ ~fsOpen'
            /\ UNCHANGED <<chanvars, gvars, listener, gotP, gotK, pressed>>]_vars
    /\ [][mainpc = "exited" =>
            /\ mainpc' = "exited"
            /\ UNCHANGED <<relaypc, gotP, gotK, pressed, gcall, disk>>]_vars
C21_Witness ==
    /\ mainpc = "exited" /\ exitKind = "error"
    /\ qdir = "" /\ relaypc = "none" /\ instance = 1

\* ---------------------------------------------------------------------
\* C22 (as stated): an instance started by a restart opens its queue on
\* the directory its predecessor used, and whenever the directory
\* variable names a directory the queue is opened there, whatever
\* --queue-dir says.
QueueOpened == qdir # ""
C22_SameDirectory ==
    QueueOpened =>
        /\ (instance > 0 => qdir = lastExec.dir)
        /\ (QueueDirFromEnv(environ) # "" => qdir = QueueDirFromEnv(environ))

\* ---------------------------------------------------------------------
\* C23: the events the listener sends are, in order, one for each signal it
\* received with a boolean body and the name PrepareForSleep or
\* PrepareForShutdown: Sleep/true for PrepareForSleep(true), Resume/false
\* for PrepareForSleep(false), Shutdown/b for PrepareForShutdown(b).
IsBoolBody(body) == body \in {<<Bool(TRUE)>>, <<Bool(FALSE)>>}
Yields(sig) == ~sig.nil /\ IsBoolBody(sig.Body) /\ sig.Name \in Signals
ExpectedEvent(sig) ==
    CASE sig.Name = "PrepareForSleep" /\ sig.Body = <<Bool(TRUE)>>
           -> PowerEvent(PowerSleep, TRUE)
      [] sig.Name = "PrepareForSleep" /\ sig.Body = <<Bool(FALSE)>>
           -> PowerEvent(PowerResume, FALSE)
      [] sig.Name = "PrepareForShutdown" /\ sig.Body = <<Bool(TRUE)>>
           -> PowerEvent(PowerShutdown, TRUE)
      [] sig.Name = "PrepareForShutdown" /\ sig.Body = <<Bool(FALSE)>>
           -> PowerEvent(PowerShutdown, FALSE)
\* what the listener has sent, with the event it is about to send
ListenerEvents ==
    LET sent == SelectSeq(put, LAMBDA e : e.src = "listener")
        evs  == [i \in 1..Len(sent) |-> sent[i].ev]
    IN  IF listener.pc = "send" THEN Append(evs, listener.ev) ELSE evs
C23_SignalMapping ==
    LET yielding == SelectSeq(heard, LAMBDA h : Yields(h.sig))
    IN  ListenerEvents = [i \in 1..Len(yielding) |-> ExpectedEvent(yielding[i].sig)]
C23_Witness ==
    /\ Len(heard) = 2
    /\ heard[1].sig = DBusSignal("PrepareForSleep", <<Bool(FALSE)>>)
    /\ heard[2].sig = DBusSignal("PrepareForShutdown", <<Bool(FALSE)>>)
    /\ Len(ListenerEvents) = 2 /\ listener.pc = "running"

\* ---------------------------------------------------------------------
\* C24: a nil signal, a signal with an empty body and a signal whose
\* first body element is not a boolean yield no event: on receiving one
\* the goroutine is back at its select and nothing is sent; signals
\* received later are still handled.
IsMalformed(sig) == sig.nil \/ sig.Body = <<>> \/ sig.Body = <<NotBool>>
LastHeard(h) == h[Len(h)].sig
C24_MalformedIgnored ==
    [][(heard' # heard /\ IsMalformed(LastHeard(heard')))
         => /\ listener' = ListenerAt("running")
            /\ UNCHANGED <<inP, put, nextId>>]_vars
C24_Witness ==
    /\ Len(heard) = 2
    /\ heard[1].sig = DBusSignal("PrepareForSleep", <<NotBool>>)
    /\ heard[2].sig = DBusSignal("PrepareForSleep", <<Bool(TRUE)>>)
    /\ ListenerEvents = <<PowerEvent(PowerSleep, TRUE)>>
    /\ listener.pc = "running"

\* ---------------------------------------------------------------------
\* C25 (as stated): a signal delivered after the context was cancelled
\* yields no event.
C25_AsStated ==
    [][(heard' # heard /\ heard'[Len(heard')].late) => listener'.pc # "send"]_vars

\* C25 (amended): once the goroutine has taken its ctx.Done case it
\* receives no signal and sends no event, so a signal delivered after
\* that yields none.
C25_AfterReturn ==
    [][listener.done =>
         /\ heard' = heard /\ listener' = listener
         /\ UNCHANGED <<inP, put, nextId>>]_vars
C25_Witness ==
    /\ listener.done /\ listener.pc = "stopped"
    /\ signalCh # <<>> /\ Head(signalCh).late
    /\ Yields(Head(signalCh).sig)


(***************************************************************************)
(* C26: every invocation of a hardware command by the guardian is made     *)
(* while the shared (read) lock connMu is held, so that it excludes the    *)
(* close and open that reopen makes under the exclusive lock.  In the log  *)
(* of a call every command entry then carries the read lock.               *)
(***************************************************************************)
CommandLocks == {gcall.log[i][6] : i \in {j \in DOMAIN gcall.log : IsCmd(gcall.log[j])}}
C26_CommandsUnderReadLock == CommandLocks \subseteq {"read"}


(***************************************************************************)
(* C27: close stops the relay.  Once close has returned (the four channels *)
(* are closed and the store is closed) the relay goroutine makes no        *)
(* further call on the store (an enqueue after a receive, a dequeue) and   *)
(* no further send on an egress channel.                                   *)
(***************************************************************************)
CloseReturned == qdir # "" /\ chClosed /\ ~fsOpen
RelayStoreOp == R_PersistP \/ R_PersistK \/ R_Drain \/ R_DequeueError
RelayEgressSend == R_SendP \/ R_SendK \/ R_SendPanic
C27_CloseStopsRelay == [][CloseReturned => ~(RelayStoreOp \/ RelayEgressSend)]_vars


(***************************************************************************)
(* C28: bounded buffers with backpressure.  None of the four channels ever *)
(* holds more than its capacity.  While an egress channel is full (and     *)
(* open) the relay stays at its send with the item it holds, and the       *)
(* item it sends afterwards is that item, appended at the tail; while an   *)
(* ingress channel is full nothing is put on it.                           *)
(***************************************************************************)
Capacity == ChanCap
Channels == <<inP, inK, outP, outK>>
WithinCapacity == \A i \in DOMAIN Channels : Len(Channels[i]) <= Capacity
\* the relay is at the send of an item to the egress channel out
RelayHolds(pc, out) == relaypc = pc /\ ~chClosed /\ Len(out) = Capacity
RelayWaits == relaypc' = relaypc /\ relayItem' = relayItem
IsSuffixOf(t, s) == \E k \in 0..Len(s) : t = SubSeq(s, k + 1, Len(s))
\* a step changes the egress channel out only by a receive at its head or
\* by the send of the item the relay holds at its tail
EgressStep(pc, out, outNext) ==
    \/ IsSuffixOf(outNext, out)
    \/ relaypc = pc /\ outNext = Append(out, relayItem)
    \/ instance' # instance
C28_Backpressure ==
    /\ [](WithinCapacity)
    /\ [][/\ RelayHolds("sendP", outP) => RelayWaits
          /\ RelayHolds("sendK", outK) => RelayWaits
          /\ EgressStep("sendP", outP, outP')
          /\ EgressStep("sendK", outK, outK')
          /\ Len(inP) = Capacity => Len(inP') <= Len(inP)
          /\ Len(inK) = Capacity => Len(inK') <= Len(inK)]_vars
C28_Witness ==
    /\ relaypc = "sendP" /\ ~chClosed /\ Len(outP) = Capacity
    /\ relayItem.gid # 0


(***************************************************************************)
(* C29: whenever the guardian is connected, the live handle carries the    *)
(* key-press sink given at construction, after every successful reopen as  *)
(* after construction; no handle other than one the guardian opened        *)
(* carries it.                                                             *)
(***************************************************************************)
C29_SinkFollowsHandle ==
    /\ Connected(cec) => cec.conn \in cec.sink
    /\ cec.sink \subseteq 1..(cec.next - 1)
C29_Witness ==
    /\ Connected(cec) /\ cec.conn > 1 /\ cec.conn \in cec.sink
    /\ gcall.err = "none" /\ HasEntry(gcall.log, "open")


(***************************************************************************)
(* C30: with power events enabled, the step of runController that passes   *)
(* the startup block puts exactly one PowerEvent{PowerOn, Active: true} at *)
(* the tail of InPowerEvents, and the listener exists only once that event *)
(* has been put, so every event the listener of an instance puts comes     *)
(* after the startup event of that instance.  With power events disabled   *)
(* nothing is put and no listener is started.                              *)
(***************************************************************************)
StartupCount == Cardinality({i \in DOMAIN put : put[i].src = "startup"})
StartupRecord == [cat |-> "power", src |-> "startup", ev |-> PowerEvent(PowerOn, TRUE)]
PassesStartup == mainpc = "cec" /\ mainpc' # "cec"
C30_StartupEvent ==
    /\ [](IF ConfigNoPowerEvents(args)
          THEN StartupCount = 0 /\ listener.pc = "none"
          ELSE /\ StartupCount \in {instance, instance + 1}
               /\ listener.pc # "none" => StartupCount = instance + 1
               /\ \A i \in DOMAIN put :
                     put[i].src = "listener" => \E j \in 1..(i - 1) : put[j] = StartupRecord)
    /\ [][PassesStartup =>
            IF ConfigNoPowerEvents(args)
            THEN put' = put /\ inP' = inP /\ listener' = listener
            ELSE /\ put' = Append(put, StartupRecord)
                 /\ inP' = Append(inP, Slot(PowerEvent(PowerOn, TRUE), nextId))]_vars
    /\ [][put' # put /\ put'[Len(put')].src = "listener"
            => ~ConfigNoPowerEvents(args) /\ StartupCount = instance + 1]_vars
C30_Witness ==
    /\ instance = 1 /\ StartupCount = 2
    /\ Len(put) = 3 /\ put[3].src = "listener"
C30_DisabledWitness == ConfigNoPowerEvents(args) /\ mainpc = "loop" /\ put = <<>>


(***************************************************************************)
(* C31: no command is invoked on a handle the guardian has closed: after a *)
(* reopen within a call, the retry and the commands for the remaining      *)
(* addresses run on the handle that reopen opened.                         *)
(***************************************************************************)
ClosedHandleAt(log, i) == \E j \in 1..(i - 1) : log[j] = <<"close", log[i][4]>>
C31_CommandsOnLiveHandle ==
    \A i \in DOMAIN gcall.log : IsCmd(gcall.log[i]) => ~ClosedHandleAt(gcall.log, i)


(***************************************************************************)
(* C32: no phantom events.  Every event the dispatch loop has received is  *)
(* an event some producer put on the matching ingress channel, and no zero *)
(* value read from a closed channel is persisted, relayed or received.     *)
(***************************************************************************)
FromProducer(slot, cat) ==
    /\ slot.gid \in DOMAIN put
    /\ put[slot.gid].cat = cat
    /\ put[slot.gid].ev = slot.ev
C32_NoPhantomEvents ==
    /\ Phantoms = 0
    /\ \A i \in DOMAIN gotP : FromProducer(gotP[i], "power")
    /\ \A i \in DOMAIN gotK : FromProducer(gotK[i], "key")


(***************************************************************************)
(* C33: the power event whose command ended in a hard error is not lost by *)
(* the recovery restart: when the successor starts, that event (the last   *)
(* one the predecessor received) is in the log directory handed over.      *)
(***************************************************************************)
SuccessorStarts == instance > 0 /\ mainpc = "start" /\ lastRestart.result = "exec"
C33_FailedEventKept ==
    (SuccessorStarts /\ gotP # <<>> /\ gotP[Len(gotP)].gid # 0)
        => HasId(disk[lastExec.dir], gotP[Len(gotP)].gid)


(***************************************************************************)
(* C34: the relay never sends on a closed egress channel: no step is the   *)
(* relay's send of the item it holds on OutPowerEvents or OutKeyEvents     *)
(* after close has closed them.                                            *)
(***************************************************************************)
SendOnClosed == relaypc \in {"sendP", "sendK"} /\ chClosed /\ R_SendPanic
C34_NoSendOnClosed == [][~SendOnClosed]_vars


(***************************************************************************)
(* C35: the channels of a queue are closed at most once in an instance:    *)
(* Queue.close is never entered with the channels closed already.          *)
(***************************************************************************)
ClosingAgain == mainpc = "close_ch" /\ chClosed
C35_ClosedAtMostOnce == ~ClosingAgain


(***************************************************************************)
(* C36: PowerOn and Standby are never called on a guardian whose handle is *)
(* absent: no call of the dispatch loop ends in the nil dereference of     *)
(* c.conn, also after a reopen that used up its attempts and after a       *)
(* restart attempt that returned.                                          *)
(***************************************************************************)
CalledThroughAbsentHandle == gcall.op \in {"PowerOn", "Standby"} /\ gcall.err = "panic"
C36_HandlePresentAtCall == ~CalledThroughAbsentHandle


(***************************************************************************)
(* C37: progress of the relay.  As long as the context is not cancelled    *)
(* and the process runs, every item in the log is eventually sent on its   *)
(* egress channel: the ingress cases, which the select prefers over the    *)
(* default, cannot postpone the drain forever once the producers stop.     *)
(***************************************************************************)
EventIds == 1..(MaxQueueEvents + 1)
InLog(id) == HasId(disk[qdir], id)
InEgress(id) == HasId(outP, id) \/ HasId(outK, id)
C37_RelayProgress ==
    \A id \in EventIds : InLog(id) ~> (InEgress(id) \/ ctxDone \/ ~Alive)
C37_Witness ==
    /\ ~ctxDone /\ Alive
    /\ InEgress(MaxQueueEvents + 1) /\ Len(gotP) + Len(gotK) = MaxQueueEvents


(***************************************************************************)
(* C38: deadlock freedom.  While the context is not cancelled and the      *)
(* process runs, whenever an event is pending (in an ingress channel, in   *)
(* the log, held by the relay, or in an egress channel) the relay          *)
(* goroutine or the dispatch loop can take a step.                         *)
(***************************************************************************)
EventsPending ==
    \/ inP # <<>> \/ inK # <<>> \/ outP # <<>> \/ outK # <<>>
    \/ disk[qdir] # <<>>
    \/ relaypc \in {"sendP", "sendK"}
Running == ~ctxDone /\ Alive
LeftIds(cat) ==
    {lastExec.log[i].gid : i \in {j \in DOMAIN lastExec.log :
        /\ lastExec.log[j].gid # 0
        /\ ItemType(lastExec.log[j].Value) = cat}}
ProducedHere(slot) == slot.gid >= lastExec.nextId
LeftoversFirst(got, cat) ==
    \A i \in DOMAIN got :
        ProducedHere(got[i])
            => \A id \in LeftIds(cat) : \E j \in 1..(i - 1) : got[j].gid = id
AtExec == mainpc = "exec"
C40_NoHandleAtExec == AtExec => cec.open = {}

====
